---- MODULE Spec2Model ----
(***************************************************************************)
(* A model of src/generate-vsphere.py: VSphereEnvironmentGenerator.        *)
(*                                                                         *)
(* One behaviour is one run of the __main__ block: the constructor loads   *)
(* and validates the configuration, generate_all runs the generation       *)
(* phases in its fixed order, export_to_csv writes the files.  A phase     *)
(* that draws random values takes one step per outer-loop iteration and    *)
(* one step for the loop's exit (with the post-pass that follows it in     *)
(* the same method); a phase that draws none is one step.                  *)
(*                                                                         *)
(* Strings are TLC strings; str.split, str.replace and the format          *)
(* specifications are computed character by character.  The weight         *)
(* arithmetic of calculate_derived_values is IEEE-754 double precision,    *)
(* computed here on 72-bit fixed-point numbers (six 12-bit limbs, 60       *)
(* fractional bits) with round-to-nearest-even at 53 significant bits.     *)
(***************************************************************************)
EXTENDS Integers, Sequences, FiniteSets, TLC

VARIABLES
  config,             \* the parsed YAML document (the input of the run)
  pc,                 \* the phase the run is in
  idx,                \* the outer-loop cursor of the phase (1-based)
  devs,               \* random draws that may still leave their default value
  error,              \* the exception that ended the run, "" if none
  exit_code,          \* -1 while running, else the process exit status
  files,              \* names of the files in the output directory
  vcenters, datacenters, clusters, hosts, host_nics, vms, vm_guest_details,
  datastores, datastore_clusters, virtual_switches, networks, portgroups,
  nsx_tags

lists == <<vcenters, datacenters, clusters, hosts, host_nics, vms,
           vm_guest_details, datastores, datastore_clusters,
           virtual_switches, networks, portgroups, nsx_tags>>
vars == <<config, pc, idx, devs, error, exit_code, files, lists>>

(***************************************************************************)
(* Bounds of the model.                                                    *)
(***************************************************************************)
MaxDeviations == 1      \* random draws per run that leave their default
MaxSpread == 2          \* randint ranges wider than this are sampled at their ends
MaxCfgRegions == 3      \* regions in the weight-validation configurations
MaxTotalVms == 6        \* total_vms in the size-profile configurations
MaxAvgVms == 4          \* avg_vms_per_host in the size-profile configurations
MaxPerCluster == 3      \* max_hosts_per_cluster in the size-profile configurations

(***************************************************************************)
(* Sequences and strings.                                                  *)
(***************************************************************************)
Range(s) == {s[i] : i \in DOMAIN s}

Min(a, b) == IF a <= b THEN a ELSE b

\* ceil(a / b) for integers a >= 0, b > 0.  math.ceil of the float quotient
\* a / b equals it for the magnitudes of the model (a, b < 2^26: the
\* correctly rounded quotient of a non-multiple is never an integer).
CeilDiv(a, b) == (a + b - 1) \div b

RECURSIVE SplitFrom(_, _, _, _)
SplitFrom(s, sep, i, start) ==
  IF i > Len(s) THEN <<SubSeq(s, start, Len(s))>>
  ELSE IF SubSeq(s, i, i) = sep
       THEN <<SubSeq(s, start, i - 1)>> \o SplitFrom(s, sep, i + 1, i + 1)
       ELSE SplitFrom(s, sep, i + 1, start)

\* str.split(sep), sep one character
Split(s, sep) == SplitFrom(s, sep, 1, 1)

RECURSIVE ReplaceFrom(_, _, _, _)
ReplaceFrom(s, old, new, i) ==
  IF i > Len(s) THEN ""
  ELSE IF i + Len(old) - 1 <= Len(s) /\ SubSeq(s, i, i + Len(old) - 1) = old
       THEN new \o ReplaceFrom(s, old, new, i + Len(old))
       ELSE SubSeq(s, i, i) \o ReplaceFrom(s, old, new, i + 1)

\* str.replace(old, new): every occurrence, left to right
Replace(s, old, new) == ReplaceFrom(s, old, new, 1)

RECURSIVE Zeros(_)
Zeros(n) == IF n <= 0 THEN "" ELSE "0" \o Zeros(n - 1)

\* f"{n:0{width}d}"
Pad(n, width) == Zeros(width - Len(ToString(n))) \o ToString(n)

RECURSIVE JoinFrom(_, _, _)
JoinFrom(parts, sep, i) ==
  IF i > Len(parts) THEN ""
  ELSE IF i = Len(parts) THEN parts[i]
  ELSE parts[i] \o sep \o JoinFrom(parts, sep, i + 1)

\* sep.join(parts)
Join(parts, sep) == JoinFrom(parts, sep, 1)

Digit(c) == CHOOSE d \in 0..9 : ToString(d) = c

RECURSIVE ParseIntFrom(_, _, _)
ParseIntFrom(s, i, acc) ==
  IF i > Len(s) THEN acc
  ELSE LET d == Digit(SubSeq(s, i, i)) IN ParseIntFrom(s, i + 1, 10 * acc + d)

\* int(s) of a string of decimal digits
ParseInt(s) == ParseIntFrom(s, 1, 0)

\* parse_range: '4-8' -> (4, 8)
ParseRange(range_str) ==
  LET p == Split(range_str, "-") IN <<ParseInt(p[1]), ParseInt(p[2])>>

(***************************************************************************)
(* Double-precision arithmetic.  A number is NumLimbs limbs of LimbBits    *)
(* bits, least significant first, in units of 2^-(FracLimbs * LimbBits).   *)
(* Every double between 2^-7 and 2^12 is such a number.                    *)
(***************************************************************************)
LimbBits == 12
NumLimbs == 6
FracLimbs == 5
SigBits == 53
Base == 2^LimbBits
Limbs == 1..NumLimbs

\* float(n) of a small integer
FromInt(n) == [j \in Limbs |-> IF j = FracLimbs + 1 THEN n ELSE 0] \o <<>>

RECURSIVE AddC(_, _, _, _)
AddC(a, b, j, c) ==
  IF j > NumLimbs THEN <<>>
  ELSE LET t == a[j] + b[j] + c IN <<t % Base>> \o AddC(a, b, j + 1, t \div Base)

LimbsAdd(a, b) == AddC(a, b, 1, 0)

RECURSIVE MulC(_, _, _, _)
MulC(a, t, j, c) ==
  IF j > NumLimbs THEN <<>>
  ELSE LET p == t * a[j] + c IN <<p % Base>> \o MulC(a, t, j + 1, p \div Base)

LimbsMul(a, t) == MulC(a, t, 1, 0)

RECURSIVE DivQ(_, _, _, _)
DivQ(a, d, j, r) ==
  IF j = 0 THEN <<>>
  ELSE LET t == r * Base + a[j] IN DivQ(a, d, j - 1, t % d) \o <<t \div d>>

RECURSIVE DivR(_, _, _, _)
DivR(a, d, j, r) ==
  IF j = 0 THEN r
  ELSE LET t == r * Base + a[j] IN DivR(a, d, j - 1, t % d)

\* bit k (1-based) of a
Bit(a, k) == (a[(k - 1) \div LimbBits + 1] \div 2^((k - 1) % LimbBits)) % 2

BitLen(a) ==
  IF \A j \in Limbs : a[j] = 0 THEN 0
  ELSE LET top == CHOOSE j \in Limbs :
                    a[j] # 0 /\ \A m \in (j + 1)..NumLimbs : a[m] = 0
       IN LimbBits * (top - 1)
          + (CHOOSE n \in 1..LimbBits : 2^(n - 1) <= a[top] /\ a[top] < 2^n)

\* the double nearest to the exact value a (+ a nonzero tail below the last
\* bit of a when sticky0), ties to even
RoundNearestEven(a, sticky0) ==
  LET s == BitLen(a) - SigBits IN
  IF s <= 0 THEN a
  ELSE LET cut == (s \div LimbBits) + 1
           pow == 2^(s % LimbBits)
           sticky == sticky0 \/ \E k \in 1..(s - 1) : Bit(a, k) = 1
           trunc == [j \in Limbs |->
                       IF j < cut THEN 0
                       ELSE IF j = cut THEN a[j] - (a[j] % pow)
                       ELSE a[j]] \o <<>>
           ulp == [j \in Limbs |-> IF j = cut THEN pow ELSE 0] \o <<>>
           up == Bit(a, s) = 1 /\ (sticky \/ Bit(a, s + 1) = 1)
       IN IF up THEN LimbsAdd(trunc, ulp) ELSE trunc

\* the double a YAML scalar num/den (a decimal literal) is loaded as
FromDecimal(num, den) ==
  LET n == FromInt(num)
  IN RoundNearestEven(DivQ(n, den, NumLimbs, 0), DivR(n, den, NumLimbs, 0) # 0)

\* a + b of two doubles
FAdd(a, b) == RoundNearestEven(LimbsAdd(a, b), FALSE)

\* t * a of an int and a double
FMulInt(t, a) == RoundNearestEven(LimbsMul(a, t), FALSE)

\* a <= b
FLeq(a, b) ==
  a = b \/ \E j \in Limbs : a[j] < b[j] /\ \A m \in (j + 1)..NumLimbs : a[m] = b[m]

\* math.ceil(a)
FCeil(a) == a[FracLimbs + 1] + (IF \E j \in 1..FracLimbs : a[j] # 0 THEN 1 ELSE 0)

\* a weight of the configuration is written in hundredths: 30 is the
\* YAML scalar 0.3
WeightValue(w) == FromDecimal(w, 100)

RECURSIVE FSumFrom(_, _, _)
FSumFrom(ws, i, acc) ==
  IF i > Len(ws) THEN acc ELSE FSumFrom(ws, i + 1, FAdd(acc, WeightValue(ws[i])))

\* sum(values) adding left to right, from 0: CPython before 3.12
FSum(ws) == FSumFrom(ws, 1, FromInt(0))

RECURSIVE ExactSumFrom(_, _, _)
ExactSumFrom(ws, i, acc) ==
  IF i > Len(ws) THEN acc
  ELSE ExactSumFrom(ws, i + 1, LimbsAdd(acc, WeightValue(ws[i])))

\* sum(values) with compensated additions, CPython from 3.12 on: the exact
\* sum of the doubles, rounded once
FSumCompensated(ws) == RoundNearestEven(ExactSumFrom(ws, 1, FromInt(0)), FALSE)

\* what sum(values) returns depends on the interpreter that runs the program
SumResults(ws) == {FSum(ws), FSumCompensated(ws)}

(***************************************************************************)
(* The program's constants and the configuration document.                 *)
(***************************************************************************)
\* self.REGIONS: the regions the generator is built with
REGIONS == <<
  [name |-> "HQ-A", weight |-> 30, network_prefix |-> "10.10"],
  [name |-> "HQ-B", weight |-> 30, network_prefix |-> "10.20"],
  [name |-> "NA",   weight |-> 15, network_prefix |-> "10.30"],
  [name |-> "EU",   weight |-> 15, network_prefix |-> "10.40"],
  [name |-> "APAC", weight |-> 10, network_prefix |-> "10.50"] >>

required_sections ==
  {"scale", "regions", "vcenter", "hosts", "virtual_machines", "storage"}

NicCount == 8           \* 'nic_count': 8
FirstId == 1000         \* cluster_id = host_id = vm_id = ... = 1000

\* one entry of config['regions'], written for the i-th built-in region name
RegionEntry(i, w, prefix) ==
  [name |-> REGIONS[i].name, weight |-> w, network_prefix |-> prefix,
   cluster_distribution |-> "standard"]

SizeProfile(total, avg, max) ==
  [total_vms |-> total, avg_vms_per_host |-> avg, max_hosts_per_cluster |-> max]

\* a configuration document with every section, for the given regions and
\* size profile
Document(regions, profile) ==
  [exists |-> TRUE,
   sections |-> required_sections,
   size |-> "small",
   size_definitions |-> [small |-> profile],
   regions |-> regions,
   cluster_sizes |->
     [standard |-> << [name |-> "small", weight |-> 70, hosts |-> "1-2"],
                      [name |-> "empty", weight |-> 30, hosts |-> "0-0"] >>],
   vm_density |-> << [name |-> "low", weight |-> 100, range |-> "1-2"] >>,
   models |-> << [name |-> "R740", weight |-> 60, cpu_cores |-> 32, memory_gb |-> 256],
                 [name |-> "R640", weight |-> 40, cpu_cores |-> 16, memory_gb |-> 128] >>,
   os_types |-> << [name |-> "RHEL 8.6", weight |-> 100] >>,
   purposes |-> << [name |-> "WEB", weight |-> 50], [name |-> "DB", weight |-> 50] >>,
   datastore_sizes_gb |-> <<1024, 2048>>]

FullRegions ==
  << RegionEntry(1, 30, "10.10"), RegionEntry(2, 30, "10.20"),
     RegionEntry(3, 15, "10.30"), RegionEntry(4, 15, "10.40"),
     RegionEntry(5, 10, "10.50") >>

\* the first n regions with the weights ws and the built-in prefixes
RegionsWith(ws) ==
  [i \in 1..Len(ws) |-> RegionEntry(i, ws[i], REGIONS[i].network_prefix)]

\* the complete five-region document every phase runs on
FullConfigs == { Document(FullRegions, SizeProfile(5, 1, 2)) }

WeightSamples == {1, 6, 29, 36, 50, 57, 69, 98, 100, 101}

\* documents that differ in the number of regions and their weights
WeightConfigs ==
  { Document(RegionsWith(ws), SizeProfile(4, 2, 2)) :
      ws \in UNION { [1..n -> WeightSamples] : n \in 1..MaxCfgRegions } }

ExampleProfiles == { SizeProfile(1000, 20, 10), SizeProfile(25, 1, 10) }

\* documents that differ in the size profile
SizeConfigs ==
  { Document(RegionsWith(ws), p) :
      ws \in { <<100>>, <<75, 25>>, <<50, 50>>, <<28, 72>> },
      p \in ExampleProfiles \cup
            { SizeProfile(t, a, m) : t \in 1..MaxTotalVms, a \in 1..MaxAvgVms,
                                     m \in 1..MaxPerCluster } }

\* documents with one thing wrong
FaultyConfigs ==
  LET full == Document(FullRegions, SizeProfile(5, 1, 2)) IN
  { [full EXCEPT !.exists = FALSE],
    [full EXCEPT !.sections = required_sections \ {"storage"}],
    [full EXCEPT !.size = "huge"],
    [full EXCEPT !.regions[2].network_prefix = "10.10"],
    [full EXCEPT !.purposes = << [name |-> "WEB", weight |-> 50] >>,
                 !.os_types = << [name |-> "RHEL 8.6", weight |-> 40] >>,
                 !.cluster_sizes.standard[1].weight = 10] }

(***************************************************************************)
(* load_config and calculate_derived_values.                               *)
(***************************************************************************)
RegionWeights(cfg) == [i \in DOMAIN cfg.regions |-> cfg.regions[i].weight]

\* the fault C6 must notice: the tolerance ten times as wide
WeightsValidWide(weight_sum) ==
  FLeq(WeightValue(90), weight_sum) /\ FLeq(weight_sum, WeightValue(110))

\* 0.99 <= sum(region_weights.values()) <= 1.01
WeightsValid(weight_sum) ==
  FLeq(WeightValue(99), weight_sum) /\ FLeq(weight_sum, WeightValue(101))

\* the fault C9 must notice: the host total rounded down
TotalHostsFloor(size_config) ==
  size_config.total_vms \div size_config.avg_vms_per_host

\* total_hosts = math.ceil(total_vms / avg_vms_per_host)
TotalHosts(size_config) ==
  CeilDiv(size_config.total_vms, size_config.avg_vms_per_host)

\* region_hosts = math.ceil(total_hosts * region_weights[region])
RegionHosts(total_hosts, w) == FCeil(FMulInt(total_hosts, WeightValue(w)))

\* region_clusters = math.ceil(region_hosts / max_hosts_per_cluster)
RegionClusters(region_hosts, max_hosts_per_cluster) ==
  CeilDiv(region_hosts, max_hosts_per_cluster)

\* the exception load_config raises on cfg, "" if none; weight_sum is what
\* sum(region_weights.values()) returned
LoadError(cfg, weight_sum) ==
  IF ~cfg.exists THEN "FileNotFoundError: Configuration file not found"
  ELSE IF required_sections \ cfg.sections # {}
    THEN "ValueError: Missing required configuration section"
  ELSE IF cfg.size \notin DOMAIN cfg.size_definitions
    THEN "ValueError: Invalid size"
  ELSE IF ~WeightsValid(weight_sum)
    THEN "ValueError: Region weights must sum to 1.0"
  ELSE ""

\* the document with calculated_hosts and calculated_clusters set per region
CalculateDerivedValues(cfg) ==
  LET size_config == cfg.size_definitions[cfg.size]
      total_hosts == TotalHosts(size_config)
      derived(r) ==
        LET region_hosts == RegionHosts(total_hosts, r.weight)
        IN r @@ [calculated_hosts |-> region_hosts,
                 calculated_clusters |->
                   RegionClusters(region_hosts, size_config.max_hosts_per_cluster)]
  IN [cfg EXCEPT !.regions = [i \in DOMAIN cfg.regions |-> derived(cfg.regions[i])]]

\* validate_config's second check.  No method calls validate_config.
PrefixesUnique(cfg) ==
  \A i, j \in DOMAIN cfg.regions :
    i # j => cfg.regions[i].network_prefix # cfg.regions[j].network_prefix

\* VSphereEnvironmentGenerator(): load the configuration, create the empty
\* collections, clear the output directory.  An exception ends the process.
Construct ==
  /\ pc = "init"
  /\ \E weight_sum \in SumResults(RegionWeights(config)) :
       LET e == LoadError(config, weight_sum) IN
       IF e # ""
       THEN /\ pc' = "aborted"
            /\ error' = e
            /\ exit_code' = 1
            /\ UNCHANGED <<config, idx, devs, files, lists>>
       ELSE /\ config' = CalculateDerivedValues(config)
            /\ pc' = "vcenters"
            /\ idx' = 1
            /\ files' = {}
            /\ UNCHANGED <<devs, error, exit_code, lists>>

(***************************************************************************)
(* The random source.  A draw takes its default value (the first choice,   *)
(* the low end of a range, a fresh UUID) or, while devs > 0, any other     *)
(* value the call can return; devs counts the draws of a run that may      *)
(* still do so.                                                            *)
(***************************************************************************)
\* random.randint(lo, hi), lo <= hi
RandInt(lo, hi) == IF hi - lo <= MaxSpread THEN lo..hi ELSE {lo, hi}

\* the values a draw may take with `budget` deviations left
Choices(all, default, budget) == IF budget > 0 THEN all \cup {default} ELSE {default}

Cost(v, default) == IF v = default THEN 0 ELSE 1

RECURSIVE DrawSeqs(_, _, _, _)
\* the results of n successive draws, at most `budget` of them off default
DrawSeqs(n, all, default, budget) ==
  IF n = 0 THEN {<<>>}
  ELSE {Append(p, default) : p \in DrawSeqs(n - 1, all, default, budget)}
       \cup (IF budget = 0 THEN {}
             ELSE {Append(p, v) : p \in DrawSeqs(n - 1, all, default, budget - 1),
                                  v \in all \ {default}})

NumDevs(draws, default) == Cardinality({i \in DOMAIN draws : draws[i] # default})

\* uuid.uuid4().hex[:8] of the n-th call when it repeats no earlier value
FreshHex(n) == Pad(n, 8)

\* the hex digits of a vCenter or Datacenter moref
HexOf(moref) == Split(moref, "-")[2]

\* uuid.uuid4().hex[:8]: a value not drawn before, or one drawn before
UuidChoices(records, n, budget) ==
  Choices({HexOf(r.moref) : r \in Range(records)}, FreshHex(n), budget)

\* random.choices(items, weights): an item of positive weight
Weighted(items) == {k \in DOMAIN items : items[k].weight > 0}
FirstWeighted(items) == CHOOSE k \in Weighted(items) : \A m \in Weighted(items) : k <= m

(***************************************************************************)
(* generate_all: the phases, in order.                                     *)
(***************************************************************************)
Phases ==
  << "vcenters", "datacenters", "clusters", "hosts", "datastores",
     "datastore_clusters", "virtual_switches", "vms", "networks", "nsx_tags",
     "export" >>

Successor(p) == Phases[(CHOOSE k \in DOMAIN Phases : Phases[k] = p) + 1]

tag_categories == <<"Environment", "Application", "Security", "Compliance">>

\* the length of the sequence the phase's outer loop runs over
LoopLen(p) ==
  CASE p = "vcenters" -> Len(REGIONS)
    [] p = "datacenters" -> Len(vcenters)
    [] p = "clusters" -> Len(datacenters)
    [] p \in {"hosts", "datastores"} -> Len(clusters)
    [] p = "vms" -> Len(hosts)
    [] p = "nsx_tags" -> Len(tag_categories)
    [] OTHER -> 0

\* the files export_to_csv writes
csv_files ==
  { "vCenters.csv", "Datacenters.csv", "Clusters.csv", "ESXiHosts.csv",
    "VirtualMachines.csv", "VMGuestDetails.csv", "Datastores.csv",
    "DatastoreClusters.csv", "VirtualSwitches.csv", "Networks.csv",
    "PortGroups.csv", "NSXTags.csv", "HostNICs.csv" }

\* the fault C13 must notice: the files written on the way out of a failed run
AbortWithOutput(e) ==
  /\ pc' = "aborted"
  /\ error' = e
  /\ exit_code' = 1
  /\ files' = files \cup csv_files
  /\ UNCHANGED <<config, idx, devs, lists>>

\* an exception leaves generate_all: __main__ prints it and exits with 1
Abort(e) ==
  /\ pc' = "aborted"
  /\ error' = e
  /\ exit_code' = 1
  /\ UNCHANGED <<config, idx, devs, files, lists>>

\* get_full_region_name
GetFullRegionName(vcenter_name) ==
  LET parts == Split(vcenter_name, "-")
      region == parts[1]
  IN IF region = "HQ" THEN region \o "-" \o parts[2] ELSE region

StartsWith(s, prefix) == Len(s) >= Len(prefix) /\ SubSeq(s, 1, Len(prefix)) = prefix

\* the vCenter a moref resolves to: next(vc for vc in self.vcenters if ...)
VcenterOf(moref) == Head(SelectSeq(vcenters, LAMBDA vc : vc.moref = moref))

HasRegion(cfg, region) == \E i \in DOMAIN cfg.regions : cfg.regions[i].name = region

\* config['regions'][region]
RegionConfig(cfg, region) ==
  cfg.regions[CHOOSE i \in DOMAIN cfg.regions : cfg.regions[i].name = region]

(***************************************************************************)
(* generate_vcenters, generate_datacenters, generate_clusters.             *)
(***************************************************************************)
MakeVcenter(region, hex) ==
  [name |-> region \o "-VC-01", moref |-> "vc-" \o hex]

GenerateVcenters ==
  /\ pc = "vcenters" /\ idx <= Len(REGIONS)
  /\ \E hex \in UuidChoices(vcenters, Len(vcenters) + Len(datacenters), devs) :
       /\ vcenters' = Append(vcenters, MakeVcenter(REGIONS[idx].name, hex))
       /\ devs' = devs - Cost(hex, FreshHex(Len(vcenters) + Len(datacenters)))
  /\ idx' = idx + 1
  /\ UNCHANGED <<config, pc, error, exit_code, files, datacenters, clusters, hosts,
                 host_nics, vms, vm_guest_details, datastores, datastore_clusters,
                 virtual_switches, networks, portgroups, nsx_tags>>

MakeDatacenter(region, i, vcenter, hex) ==
  [name |-> region \o "-DC-" \o (IF i = 0 THEN "PROD" ELSE "DR"),
   moref |-> "datacenter-" \o hex,
   parent_vcenter |-> vcenter.moref]

GenerateDatacenters ==
  /\ pc = "datacenters" /\ idx <= Len(vcenters)
  /\ LET vcenter == vcenters[idx]
         region == GetFullRegionName(vcenter.name)
         num_dcs == IF StartsWith(region, "HQ") THEN 2 ELSE 1
         n == Len(vcenters) + Len(datacenters)
     IN \E h1 \in UuidChoices(datacenters, n, devs) :
          LET first == Append(datacenters, MakeDatacenter(region, 0, vcenter, h1))
              left == devs - Cost(h1, FreshHex(n))
          IN IF num_dcs = 1
             THEN datacenters' = first /\ devs' = left
             ELSE \E h2 \in UuidChoices(first, n + 1, left) :
                    /\ datacenters' = Append(first, MakeDatacenter(region, 1, vcenter, h2))
                    /\ devs' = left - Cost(h2, FreshHex(n + 1))
  /\ idx' = idx + 1
  /\ UNCHANGED <<config, pc, error, exit_code, files, vcenters, clusters, hosts,
                 host_nics, vms, vm_guest_details, datastores, datastore_clusters,
                 virtual_switches, networks, portgroups, nsx_tags>>

MakeCluster(region, i, cluster_id, datacenter, size_category, total_hosts) ==
  [name |-> region \o "-CL-" \o Pad(i + 1, 2),
   moref |-> "domain-c" \o ToString(cluster_id),
   parent_datacenter |-> datacenter.moref,
   parent_vcenter |-> datacenter.parent_vcenter,
   total_hosts |-> total_hosts,
   total_vms |-> 0,
   total_cpu_cores |-> 0,
   total_memory |-> 0,
   size_category |-> size_category]

\* get_random_from_distribution and randint on the chosen category's range:
\* <<index of the size category, total_hosts>>
ClusterDraws(distribution) ==
  UNION { {k} \X RandInt(ParseRange(distribution[k].hosts)[1],
                         ParseRange(distribution[k].hosts)[2]) :
          k \in Weighted(distribution) }

DefaultClusterDraw(distribution) ==
  LET k == FirstWeighted(distribution)
  IN <<k, ParseRange(distribution[k].hosts)[1]>>

GenerateClusters ==
  /\ pc = "clusters" /\ idx <= Len(datacenters)
  /\ LET datacenter == datacenters[idx]
         vcenter == VcenterOf(datacenter.parent_vcenter)
         region == GetFullRegionName(vcenter.name)
     IN IF ~HasRegion(config, region)
           \/ RegionConfig(config, region).cluster_distribution
                \notin DOMAIN config.cluster_sizes
        THEN Abort("KeyError")
        ELSE LET region_config == RegionConfig(config, region)
                 distribution == config.cluster_sizes[region_config.cluster_distribution]
                 num_clusters == region_config.calculated_clusters
                 default == DefaultClusterDraw(distribution)
             IN \E draws \in DrawSeqs(num_clusters, ClusterDraws(distribution),
                                      default, devs) :
                  /\ clusters' = clusters \o
                       [i \in 1..num_clusters |->
                          MakeCluster(region, i - 1, FirstId + Len(clusters) + i - 1,
                                      datacenter, distribution[draws[i][1]].name,
                                      draws[i][2])]
                  /\ devs' = devs - NumDevs(draws, default)
                  /\ idx' = idx + 1
                  /\ UNCHANGED <<config, pc, error, exit_code, files, vcenters,
                                 datacenters, hosts, host_nics, vms, vm_guest_details,
                                 datastores, datastore_clusters, virtual_switches,
                                 networks, portgroups, nsx_tags>>

(***************************************************************************)
(* generate_hosts (with generate_host_nics) and its post-pass.             *)
(***************************************************************************)
RECURSIVE SumSeq(_)
SumSeq(s) == IF s = <<>> THEN 0 ELSE Head(s) + SumSeq(Tail(s))

\* the fault C2 must notice: a host filed under its datacenter
MakeHostMisfiled(cluster, i, host_id, vm_capacity, model) ==
  [name |-> Replace(cluster.name, "CL", "ESX") \o "-" \o Pad(i + 1, 2),
   moref |-> "host-" \o ToString(host_id),
   parent_cluster |-> cluster.parent_datacenter,
   vcenter_moref |-> cluster.parent_vcenter,
   vm_capacity |-> vm_capacity,
   cpu_cores |-> model.cpu_cores,
   memory_gb |-> model.memory_gb,
   nic_count |-> NicCount,
   model |-> model.name]

MakeHost(cluster, i, host_id, vm_capacity, model) ==
  [name |-> Replace(cluster.name, "CL", "ESX") \o "-" \o Pad(i + 1, 2),
   moref |-> "host-" \o ToString(host_id),
   parent_cluster |-> cluster.moref,
   vcenter_moref |-> cluster.parent_vcenter,
   vm_capacity |-> vm_capacity,
   cpu_cores |-> model.cpu_cores,
   memory_gb |-> model.memory_gb,
   nic_count |-> NicCount,
   model |-> model.name]

MakeNic(host, i) ==
  [name |-> "vmnic" \o ToString(i),
   moref |-> "nic-" \o host.moref \o "-" \o ToString(i),
   parent_host |-> host.moref]

\* the fault C11 must notice: the last NIC of a host left out
HostNicsShort(host) == [i \in 1..(host.nic_count - 1) |-> MakeNic(host, i - 1)]

\* generate_host_nics(host): the records it appends
HostNics(host) == [i \in 1..host.nic_count |-> MakeNic(host, i - 1)]

RECURSIVE NicsOfAll(_)
NicsOfAll(new_hosts) ==
  IF new_hosts = <<>> THEN <<>>
  ELSE HostNics(Head(new_hosts)) \o NicsOfAll(Tail(new_hosts))

GenerateHosts ==
  /\ pc = "hosts" /\ idx <= Len(clusters)
  /\ LET cluster == clusters[idx]
         vm_density == config.vm_density
         host_models == config.models
     IN \E d \in Choices(Weighted(vm_density), FirstWeighted(vm_density), devs) :
        \E m \in Choices(Weighted(host_models), FirstWeighted(host_models),
                         devs - Cost(d, FirstWeighted(vm_density))) :
          LET min_vms == ParseRange(vm_density[d].range)[1]
              max_vms == ParseRange(vm_density[d].range)[2]
              left == devs - Cost(d, FirstWeighted(vm_density))
                           - Cost(m, FirstWeighted(host_models))
          IN \E caps \in DrawSeqs(cluster.total_hosts, RandInt(min_vms, max_vms),
                                  min_vms, left) :
               LET new_hosts ==
                     [i \in 1..cluster.total_hosts |->
                        MakeHost(cluster, i - 1, FirstId + Len(hosts) + i - 1,
                                 caps[i], host_models[m])]
               IN /\ hosts' = hosts \o new_hosts
                  /\ host_nics' = host_nics \o NicsOfAll(new_hosts)
                  /\ devs' = left - NumDevs(caps, min_vms)
  /\ idx' = idx + 1
  /\ UNCHANGED <<config, pc, error, exit_code, files, vcenters, datacenters,
                 clusters, vms, vm_guest_details, datastores, datastore_clusters,
                 virtual_switches, networks, portgroups, nsx_tags>>

\* cluster_hosts = [h for h in self.hosts if h['parent_cluster'] == cluster['moref']]
ClusterHosts(cluster, all_hosts) ==
  SelectSeq(all_hosts, LAMBDA h : h.parent_cluster = cluster.moref)

\* the fault C14 must notice: the totals taken from the first host alone
WithHostTotalsFirst(cluster, all_hosts) ==
  LET cluster_hosts == ClusterHosts(cluster, all_hosts)
  IN [cluster EXCEPT
        !.total_cpu_cores =
          IF cluster_hosts = <<>> THEN 0 ELSE cluster_hosts[1].cpu_cores,
        !.total_memory =
          IF cluster_hosts = <<>> THEN 0 ELSE cluster_hosts[1].memory_gb]

\* the loop after the hosts: total_cpu_cores and total_memory of a cluster
WithHostTotals(cluster, all_hosts) ==
  LET cluster_hosts == ClusterHosts(cluster, all_hosts)
  IN [cluster EXCEPT
        !.total_cpu_cores =
          SumSeq([i \in DOMAIN cluster_hosts |-> cluster_hosts[i].cpu_cores]),
        !.total_memory =
          SumSeq([i \in DOMAIN cluster_hosts |-> cluster_hosts[i].memory_gb])]

HostsTotals ==
  /\ pc = "hosts" /\ idx > Len(clusters)
  /\ clusters' = [i \in DOMAIN clusters |-> WithHostTotals(clusters[i], hosts)]
  /\ pc' = Successor(pc)
  /\ idx' = 1
  /\ UNCHANGED <<config, devs, error, exit_code, files, vcenters, datacenters,
                 hosts, host_nics, vms, vm_guest_details, datastores,
                 datastore_clusters, virtual_switches, networks, portgroups,
                 nsx_tags>>

(***************************************************************************)
(* generate_datastores, generate_datastore_clusters,                       *)
(* generate_virtual_switches.                                              *)
(***************************************************************************)
MakeDatastore(cluster, i, datastore_id, capacity) ==
  [name |-> Replace(cluster.name, "CL", "DS") \o "-" \o Pad(i + 1, 2),
   moref |-> "datastore-" \o ToString(datastore_id),
   parent_cluster |-> cluster.moref,
   capacity_gb |-> capacity,
   datastore_cluster |-> "DSC-" \o cluster.name \o "-01"]

GenerateDatastores ==
  /\ pc = "datastores" /\ idx <= Len(clusters)
  /\ LET cluster == clusters[idx]
         sizes == config.datastore_sizes_gb
     IN \E count \in Choices(RandInt(4, 8), 4, devs) :
        \E caps \in DrawSeqs(count, Range(sizes), sizes[1], devs - Cost(count, 4)) :
          /\ datastores' = datastores \o
               [i \in 1..count |->
                  MakeDatastore(cluster, i - 1, FirstId + Len(datastores) + i - 1,
                                caps[i])]
          /\ devs' = devs - Cost(count, 4) - NumDevs(caps, sizes[1])
  /\ idx' = idx + 1
  /\ UNCHANGED <<config, pc, error, exit_code, files, vcenters, datacenters,
                 clusters, hosts, host_nics, vms, vm_guest_details,
                 datastore_clusters, virtual_switches, networks, portgroups,
                 nsx_tags>>

MakeDatastoreCluster(cluster, dsc_id, cluster_datastores) ==
  [name |-> "DSC-" \o cluster.name \o "-01",
   moref |-> "dsc-" \o ToString(dsc_id),
   parent_cluster |-> cluster.moref,
   total_capacity_gb |->
     SumSeq([i \in DOMAIN cluster_datastores |-> cluster_datastores[i].capacity_gb]),
   total_datastores |-> Len(cluster_datastores)]

\* the datastore clusters of the clusters from the i-th on, appended to acc
RECURSIVE DatastoreClustersFrom(_, _)
DatastoreClustersFrom(i, acc) ==
  IF i > Len(clusters) THEN acc
  ELSE LET cluster == clusters[i]
           cluster_datastores ==
             SelectSeq(datastores, LAMBDA ds : ds.parent_cluster = cluster.moref)
       IN DatastoreClustersFrom(i + 1,
            IF cluster_datastores # <<>>
            THEN Append(acc, MakeDatastoreCluster(cluster, FirstId + Len(acc),
                                                  cluster_datastores))
            ELSE acc)

GenerateDatastoreClusters ==
  /\ pc = "datastore_clusters"
  /\ datastore_clusters' = DatastoreClustersFrom(1, datastore_clusters)
  /\ pc' = Successor(pc)
  /\ UNCHANGED <<config, idx, devs, error, exit_code, files, vcenters, datacenters,
                 clusters, hosts, host_nics, vms, vm_guest_details, datastores,
                 virtual_switches, networks, portgroups, nsx_tags>>

MakeSwitch(region, switch_id) ==
  [name |-> region \o "-DVS-01", moref |-> "dvs-" \o ToString(switch_id)]

GenerateVirtualSwitches ==
  /\ pc = "virtual_switches"
  /\ virtual_switches' = virtual_switches \o
       [k \in DOMAIN vcenters |->
          MakeSwitch(GetFullRegionName(vcenters[k].name),
                     FirstId + Len(virtual_switches) + k - 1)]
  /\ pc' = Successor(pc)
  /\ UNCHANGED <<config, idx, devs, error, exit_code, files, vcenters, datacenters,
                 clusters, hosts, host_nics, vms, vm_guest_details, datastores,
                 datastore_clusters, networks, portgroups, nsx_tags>>

(***************************************************************************)
(* generate_vms (with generate_vm_guest_details) and its post-pass.        *)
(***************************************************************************)
\* the fault C1 must notice: a VM that refers to its host by name
MakeVmOrphan(host, vm_id, power_state) ==
  [name |-> Replace(host.name, "ESX", "VM") \o "-" \o Pad(vm_id, 4),
   moref |-> "vm-" \o ToString(vm_id),
   parent_host |-> host.name,
   cluster_moref |-> host.parent_cluster,
   vcenter_moref |-> host.vcenter_moref,
   power_state |-> power_state]

MakeVm(host, vm_id, power_state) ==
  [name |-> Replace(host.name, "ESX", "VM") \o "-" \o Pad(vm_id, 4),
   moref |-> "vm-" \o ToString(vm_id),
   parent_host |-> host.moref,
   cluster_moref |-> host.parent_cluster,
   vcenter_moref |-> host.vcenter_moref,
   power_state |-> power_state]

\* the fault C10 must notice: telemetry drawn whatever the power state
MakeGuestDetailAlways(vm, uptime, cpu, mem) ==
  [vm_moref |-> vm.moref,
   uptime |-> uptime,
   tools_status |->
     IF vm.power_state = "poweredOn" THEN "Running Current" ELSE "Not Running",
   guest_state |-> IF vm.power_state = "poweredOn" THEN "Running" ELSE "Stopped",
   cpu_usage |-> cpu,
   memory_usage |-> mem]

\* generate_vm_guest_details(vm): the record it appends.  uptime, cpu and
\* mem are what random.uniform(1, 400), randint(20, 80) and randint(40, 90)
\* return when the conditional expressions call them.
MakeGuestDetail(vm, uptime, cpu, mem) ==
  [vm_moref |-> vm.moref,
   uptime |-> IF vm.power_state = "poweredOn" THEN uptime ELSE 0,
   tools_status |->
     IF vm.power_state = "poweredOn" THEN "Running Current" ELSE "Not Running",
   guest_state |-> IF vm.power_state = "poweredOn" THEN "Running" ELSE "Stopped",
   cpu_usage |-> IF vm.power_state = "poweredOn" THEN cpu ELSE 0,
   memory_usage |-> IF vm.power_state = "poweredOn" THEN mem ELSE 0]

\* the draws of one VM: <<power_state, uptime, cpu_usage, memory_usage>>,
\* the telemetry at the low or at the high end of its ranges; a powered-off
\* VM draws no telemetry
DefaultVmDraw == <<"poweredOn", 1, 20, 40>>
VmDraws ==
  { <<"poweredOff", 1, 20, 40>>, <<"poweredOn", 1, 20, 40>>,
    <<"poweredOn", 400, 80, 90>> }

GenerateVms ==
  /\ pc = "vms" /\ idx <= Len(hosts)
  /\ LET host == hosts[idx]
         vcenter == VcenterOf(host.vcenter_moref)
         region == GetFullRegionName(vcenter.name)
         network_prefix == RegionConfig(config, region).network_prefix
     IN \E draws \in DrawSeqs(host.vm_capacity, VmDraws, DefaultVmDraw, devs) :
          LET new_vms ==
                [i \in 1..host.vm_capacity |->
                   MakeVm(host, FirstId + Len(vms) + i - 1, draws[i][1])]
          IN /\ vms' = vms \o new_vms
             /\ vm_guest_details' = vm_guest_details \o
                  [i \in 1..host.vm_capacity |->
                     MakeGuestDetail(new_vms[i], draws[i][2], draws[i][3], draws[i][4])]
             /\ devs' = devs - NumDevs(draws, DefaultVmDraw)
  /\ idx' = idx + 1
  /\ UNCHANGED <<config, pc, error, exit_code, files, vcenters, datacenters,
                 clusters, hosts, host_nics, datastores, datastore_clusters,
                 virtual_switches, networks, portgroups, nsx_tags>>

\* the fault C3 must notice: only the running VMs counted
ClusterVmCountRunning(cluster, all_vms) ==
  Len(SelectSeq(all_vms, LAMBDA vm : vm.cluster_moref = cluster.moref
                                  /\ vm.power_state = "poweredOn"))

\* len([vm for vm in self.vms if vm['cluster_moref'] == cluster['moref']])
ClusterVmCount(cluster, all_vms) ==
  Len(SelectSeq(all_vms, LAMBDA vm : vm.cluster_moref = cluster.moref))

VmsTotals ==
  /\ pc = "vms" /\ idx > Len(hosts)
  /\ clusters' = [i \in DOMAIN clusters |->
                    [clusters[i] EXCEPT !.total_vms = ClusterVmCount(clusters[i], vms)]]
  /\ pc' = Successor(pc)
  /\ idx' = 1
  /\ UNCHANGED <<config, devs, error, exit_code, files, vcenters, datacenters,
                 hosts, host_nics, vms, vm_guest_details, datastores,
                 datastore_clusters, virtual_switches, networks, portgroups,
                 nsx_tags>>

(***************************************************************************)
(* generate_networks (with generate_portgroup), generate_nsx_tags,         *)
(* export_to_csv.                                                          *)
(***************************************************************************)
network_purposes == <<"PROD", "DEV", "DMZ", "MGMT">>
network_segments == <<"WEB", "APP", "DB">>

\* vm['name'].split('-')[2] of every VM
NameSegments(all_vms) ==
  [i \in DOMAIN all_vms |-> Split(all_vms[i].name, "-")[3]] \o <<>>

\* the fault C15 must notice: the first five VMs taken whatever their names
AssociatedVmsUnfiltered(all_vms, name_segments, segment) ==
  Join([i \in 1..Min(5, Len(all_vms)) |-> all_vms[i].moref], ",")

\* ','.join([vm['moref'] for vm in self.vms
\*           if vm['name'].split('-')[2] == segment][:5])
AssociatedVms(all_vms, name_segments, segment) ==
  LET at == SelectSeq([i \in DOMAIN all_vms |-> i] \o <<>>,
                   LAMBDA i : name_segments[i] = segment)
  IN Join([i \in 1..Min(5, Len(at)) |-> all_vms[at[i]].moref], ",")

MakeNetwork(region, purpose, segment, network_id, associated_vms) ==
  [name |-> region \o "-NET-" \o purpose \o "-" \o segment,
   moref |-> "network-" \o ToString(network_id),
   parent_vswitch |-> "dvs-" \o region \o "-01",
   associated_vms |-> associated_vms,
   vlan_id |-> network_id]

MakePortgroup(network) ==
  [name |-> "PG-" \o network.name,
   moref |-> "pg-" \o Split(network.moref, "-")[2],
   parent_vswitch |-> network.parent_vswitch,
   vlan_id |-> network.vlan_id,
   associated_vms |-> network.associated_vms]

GenerateNetworks ==
  /\ pc = "networks"
  /\ \E name_segments \in {NameSegments(vms)} :
     \E associated \in
          {[s \in DOMAIN network_segments |->
              AssociatedVms(vms, name_segments, network_segments[s])] \o <<>>} :
     \E new_networks \in
          {[k \in 1..(Len(vcenters) * Len(network_purposes) * Len(network_segments)) |->
              LET per_purpose == Len(network_segments)
                  per_region == Len(network_purposes) * per_purpose
                  region ==
                    GetFullRegionName(vcenters[((k - 1) \div per_region) + 1].name)
                  j == (k - 1) % per_region
              IN MakeNetwork(region,
                             network_purposes[(j \div per_purpose) + 1],
                             network_segments[(j % per_purpose) + 1],
                             FirstId + Len(networks) + k - 1,
                             associated[(j % per_purpose) + 1])] \o <<>>} :
       /\ networks' = networks \o new_networks
       /\ portgroups' = portgroups \o
            [k \in DOMAIN new_networks |-> MakePortgroup(new_networks[k])]
  /\ pc' = Successor(pc)
  /\ UNCHANGED <<config, idx, devs, error, exit_code, files, vcenters, datacenters,
                 clusters, hosts, host_nics, vms, vm_guest_details, datastores,
                 datastore_clusters, virtual_switches, nsx_tags>>

MakeTag(category, tag_id, vm) ==
  [name |-> "TAG-" \o category \o "-" \o ToString(tag_id),
   moref |-> "tag-" \o ToString(tag_id),
   object_moref |-> vm.moref,
   category |-> category]

\* random.sample(population of n, k): k distinct positions.  Of the orders
\* it can return, the runs of k consecutive positions from every offset.
Samples(n, k) ==
  { [i \in 1..k |-> ((o + i - 1) % n) + 1] : o \in 0..(n - 1) }

GenerateNsxTags ==
  /\ pc = "nsx_tags" /\ idx <= Len(tag_categories)
  /\ LET k == Len(vms) \div 4
         default == [i \in 1..k |-> i]
     IN \E sample \in Choices(Samples(Len(vms), k), default, devs) :
          /\ nsx_tags' = nsx_tags \o
               [i \in 1..k |->
                  MakeTag(tag_categories[idx], FirstId + Len(nsx_tags) + i - 1,
                          vms[sample[i]])]
          /\ devs' = devs - Cost(sample, default)
  /\ idx' = idx + 1
  /\ UNCHANGED <<config, pc, error, exit_code, files, vcenters, datacenters,
                 clusters, hosts, host_nics, vms, vm_guest_details, datastores,
                 datastore_clusters, virtual_switches, networks, portgroups>>

\* export_to_csv, then generate_all and the process return
ExportToCsv ==
  /\ pc = "export"
  /\ files' = files \cup csv_files
  /\ pc' = "done"
  /\ exit_code' = 0
  /\ UNCHANGED <<config, idx, devs, error, lists>>

\* a generate_* method whose loop is exhausted returns; generate_all calls
\* the next one
Return ==
  /\ pc \in {"vcenters", "datacenters", "clusters", "datastores", "nsx_tags"}
  /\ idx > LoopLen(pc)
  /\ pc' = Successor(pc)
  /\ idx' = 1
  /\ UNCHANGED <<config, devs, error, exit_code, files, lists>>

(***************************************************************************)
(* The specification.                                                      *)
(***************************************************************************)
Init ==
  /\ \/ config \in FullConfigs /\ devs = MaxDeviations
     \/ config \in WeightConfigs \cup SizeConfigs \cup FaultyConfigs /\ devs = 0
  /\ pc = "init"
  /\ idx = 1
  /\ error = ""
  /\ exit_code = -1
  /\ files = {"stale.csv"}
  /\ vcenters = <<>> /\ datacenters = <<>> /\ clusters = <<>> /\ hosts = <<>>
  /\ host_nics = <<>> /\ vms = <<>> /\ vm_guest_details = <<>>
  /\ datastores = <<>> /\ datastore_clusters = <<>> /\ virtual_switches = <<>>
  /\ networks = <<>> /\ portgroups = <<>> /\ nsx_tags = <<>>

Next ==
  \/ Construct
  \/ GenerateVcenters
  \/ GenerateDatacenters
  \/ GenerateClusters
  \/ GenerateHosts
  \/ HostsTotals
  \/ GenerateDatastores
  \/ GenerateDatastoreClusters
  \/ GenerateVirtualSwitches
  \/ GenerateVms
  \/ VmsTotals
  \/ GenerateNetworks
  \/ GenerateNsxTags
  \/ ExportToCsv
  \/ Return

Spec == Init /\ [][Next]_vars

(***************************************************************************)
(* Properties.                                                             *)
(***************************************************************************)
\* the records appended to a list by a step
NewOf(old, new) == {new[i] : i \in (Len(old) + 1)..Len(new)}

MorefsDistinct(records) ==
  \A i, j \in DOMAIN records : i # j => records[i].moref # records[j].moref

NoEntities ==
  /\ vcenters = <<>> /\ datacenters = <<>> /\ clusters = <<>> /\ hosts = <<>>
  /\ host_nics = <<>> /\ vms = <<>> /\ vm_guest_details = <<>>
  /\ datastores = <<>> /\ datastore_clusters = <<>> /\ virtual_switches = <<>>
  /\ networks = <<>> /\ portgroups = <<>> /\ nsx_tags = <<>>

\* the document can be read, has every section and names a defined size
Loadable(cfg) ==
  /\ cfg.exists
  /\ required_sections \subseteq cfg.sections
  /\ cfg.size \in DOMAIN cfg.size_definitions

WeightsError == "ValueError: Region weights must sum to 1.0"

\* load_config returned: the generator was constructed
Accepted == pc # "init" /\ (pc = "aborted" => error = "KeyError")

\* the sum of a table's weights, in exact hundredths
TableSum(table) == SumSeq([i \in DOMAIN table |-> table[i].weight])

DatacenterResolves(d, all_vcenters) ==
  \E v \in Range(all_vcenters) : v.moref = d.parent_vcenter

ClusterResolves(c, all_datacenters) ==
  \E d \in Range(all_datacenters) :
    d.moref = c.parent_datacenter /\ d.parent_vcenter = c.parent_vcenter

HostResolves(h, all_clusters) ==
  \E c \in Range(all_clusters) :
    c.moref = h.parent_cluster /\ c.parent_vcenter = h.vcenter_moref

VmResolves(vm, all_hosts) ==
  \E h \in Range(all_hosts) :
    /\ h.moref = vm.parent_host
    /\ h.parent_cluster = vm.cluster_moref
    /\ h.vcenter_moref = vm.vcenter_moref

ChainResolves ==
  /\ \A d \in Range(datacenters) : DatacenterResolves(d, vcenters)
  /\ \A c \in Range(clusters) : ClusterResolves(c, datacenters)
  /\ \A h \in Range(hosts) : HostResolves(h, clusters)
  /\ \A vm \in Range(vms) : VmResolves(vm, hosts)

\* a step's new children refer to parents that were there before the step
ParentsFirst ==
  /\ \A d \in NewOf(datacenters, datacenters') : DatacenterResolves(d, vcenters)
  /\ \A c \in NewOf(clusters, clusters') : ClusterResolves(c, datacenters)
  /\ \A h \in NewOf(hosts, hosts') : HostResolves(h, clusters)
  /\ \A vm \in NewOf(vms, vms') : VmResolves(vm, hosts)

\* C1: in every state of a run, export included, every datacenter names an
\* existing vCenter, every cluster an existing datacenter with the cluster's
\* own parent_vcenter, every host an existing cluster with the host's
\* vcenter_moref, every VM an existing host with the VM's cluster_moref and
\* vcenter_moref; and every record a step appends finds that parent among
\* the records that existed before the step.
C1_ParentChain == []ChainResolves /\ [][ParentsFirst]_vars

C1_ExportWithChain ==
  /\ pc = "export"
  /\ datacenters # <<>> /\ clusters # <<>> /\ hosts # <<>> /\ vms # <<>>

AfterHosts ==
  {"datastores", "datastore_clusters", "virtual_switches", "vms", "networks",
   "nsx_tags", "export", "done"}

\* C2: once generate_hosts has returned, and up to the end of the run, every
\* cluster's total_hosts is the number of host records whose parent_cluster
\* is the cluster's moref.
C2_TotalHosts ==
  pc \in AfterHosts =>
    \A c \in Range(clusters) :
      c.total_hosts = Cardinality({i \in DOMAIN hosts : hosts[i].parent_cluster = c.moref})

C2_TwoHostCluster ==
  /\ pc = "export"
  /\ \E c \in Range(clusters) :
       /\ c.total_hosts = 2
       /\ Cardinality({i \in DOMAIN hosts : hosts[i].parent_cluster = c.moref}) = 2

AfterVms == {"networks", "nsx_tags", "export", "done"}

VmTotalsCurrent ==
  pc \in AfterVms =>
    \A c \in Range(clusters) :
      c.total_vms = Cardinality({i \in DOMAIN vms : vms[i].cluster_moref = c.moref})

\* the phases between the VM totals and the export leave VMs and clusters alone
VmTotalsFrozen == pc \in AfterVms => vms' = vms /\ clusters' = clusters

\* C3: once generate_vms has returned, every cluster's total_vms is the
\* number of VM records whose cluster_moref is the cluster's moref, and no
\* later step (networks, NSX tags, export) changes the VMs or the clusters.
C3_TotalVms == []VmTotalsCurrent /\ [][VmTotalsFrozen]_vars

C3_ExportWithVms ==
  /\ pc = "export"
  /\ \E c \in Range(clusters) :
       /\ c.total_vms = 2
       /\ Cardinality({i \in DOMAIN vms : vms[i].cluster_moref = c.moref}) = 2

\* C4: the morefs of the records of each kind are pairwise distinct.
C4_MorefsDistinct ==
  /\ MorefsDistinct(vcenters) /\ MorefsDistinct(datacenters)
  /\ MorefsDistinct(clusters) /\ MorefsDistinct(hosts)
  /\ MorefsDistinct(host_nics) /\ MorefsDistinct(vms)
  /\ MorefsDistinct(datastores) /\ MorefsDistinct(datastore_clusters)
  /\ MorefsDistinct(virtual_switches) /\ MorefsDistinct(networks)
  /\ MorefsDistinct(portgroups) /\ MorefsDistinct(nsx_tags)

\* C5: an accepted configuration with distinct prefixes gets one vCenter per
\* region of its regions section, and its run does not abort.
C5_VcenterPerRegion ==
  (Accepted /\ PrefixesUnique(config) /\ pc # "vcenters") =>
    Len(vcenters) = Len(config.regions) /\ pc # "aborted"

\* C6: a loadable configuration whose region weights sum to 0.98 or less or
\* to 1.02 or more is rejected with the weights error, one whose weights sum
\* to 1.00 is not, and a run rejected with the weights error has no entity
\* record.  (A sum of exactly 0.99 or 1.01 goes either way with the rounding
\* of the floating-point additions.)
C6_WeightsChecked ==
  (pc # "init" /\ Loadable(config)) =>
    LET s == TableSum(config.regions) IN
      /\ (s <= 98 \/ s >= 102) => pc = "aborted" /\ error = WeightsError
      /\ s = 100 => error # WeightsError
      /\ error = WeightsError => NoEntities

C6_Rejected ==
  /\ pc = "aborted" /\ error = WeightsError
  /\ TableSum(config.regions) <= 98
  /\ Len(config.regions) >= 2

\* C6 as first stated: the weights error exactly for the sums outside
\* [0.99, 1.01].
C6_ExactInterval ==
  (pc # "init" /\ Loadable(config)) =>
    LET s == TableSum(config.regions) IN
      /\ (s < 99 \/ s > 101) => pc = "aborted" /\ error = WeightsError /\ NoEntities
      /\ (s >= 99 /\ s <= 101) => error # WeightsError

\* C7: a configuration in which two regions share a network_prefix is
\* rejected at construction, before any entity exists.
C7_DuplicatePrefixRejected ==
  ~PrefixesUnique(config) => pc \in {"init", "aborted"} /\ NoEntities

\* C8: a configuration whose purposes, os_types or cluster-size weights sum
\* outside 1.0 +/- 0.01 is rejected at construction, before any entity exists.
C8_EveryTableChecked ==
  (\/ TableSum(config.purposes) \notin 99..101
   \/ TableSum(config.os_types) \notin 99..101
   \/ TableSum(config.cluster_sizes.standard) \notin 99..101) =>
    pc \in {"init", "aborted"} /\ NoEntities

\* C9: for an accepted configuration, calculated_hosts of a region is the
\* ceiling of ceil(total_vms / avg_vms_per_host) times the weight, the
\* product taken in floating point: the exact ceiling when the weight is a
\* multiple of 0.25 or the exact product is no integer, the exact ceiling or
\* one more otherwise; calculated_clusters is
\* ceil(calculated_hosts / max_hosts_per_cluster).
C9_DerivedValues ==
  Accepted =>
    \A r \in Range(config.regions) :
      LET size_config == config.size_definitions[config.size]
          total_hosts ==
            CeilDiv(size_config.total_vms, size_config.avg_vms_per_host)
          exact == CeilDiv(total_hosts * r.weight, 100)
      IN /\ r.calculated_hosts \in {exact, exact + 1}
         /\ ((total_hosts * r.weight) % 100 # 0 \/ r.weight % 25 = 0) =>
              r.calculated_hosts = exact
         /\ r.calculated_clusters =
              CeilDiv(r.calculated_hosts, size_config.max_hosts_per_cluster)

C9_Example ==
  /\ pc = "vcenters"
  /\ config.size_definitions[config.size] = SizeProfile(1000, 20, 10)
  /\ \E r \in Range(config.regions) :
       r.weight = 100 /\ r.calculated_hosts = 50 /\ r.calculated_clusters = 5

\* C9 as first stated: calculated_hosts = ceil(total_vms / avg_vms_per_host *
\* weight), one ceiling over the exact quotient.
C9_SingleCeiling ==
  Accepted =>
    \A r \in Range(config.regions) :
      LET size_config == config.size_definitions[config.size]
      IN /\ r.calculated_hosts =
              CeilDiv(size_config.total_vms * r.weight,
                      size_config.avg_vms_per_host * 100)
         /\ r.calculated_clusters =
              CeilDiv(r.calculated_hosts, size_config.max_hosts_per_cluster)

\* C10: every VM has its guest-detail record, appended with it, and that
\* record has uptime, cpu_usage and memory_usage 0, tools_status
\* "Not Running" and guest_state "Stopped" when the VM is poweredOff, and
\* uptime >= 1, cpu_usage in 20..80, memory_usage in 40..90, tools_status
\* "Running Current" and guest_state "Running" when it is poweredOn.
C10_GuestTelemetry ==
  /\ Len(vm_guest_details) = Len(vms)
  /\ \A i \in DOMAIN vms :
       LET vm == vms[i]
           detail == vm_guest_details[i]
       IN /\ detail.vm_moref = vm.moref
          /\ vm.power_state \in {"poweredOn", "poweredOff"}
          /\ vm.power_state = "poweredOff" =>
               /\ detail.uptime = 0 /\ detail.cpu_usage = 0
               /\ detail.memory_usage = 0
               /\ detail.tools_status = "Not Running"
               /\ detail.guest_state = "Stopped"
          /\ vm.power_state = "poweredOn" =>
               /\ detail.uptime >= 1
               /\ detail.cpu_usage \in 20..80
               /\ detail.memory_usage \in 40..90
               /\ detail.tools_status = "Running Current"
               /\ detail.guest_state = "Running"

C10_BothPowerStates ==
  /\ \E vm \in Range(vms) : vm.power_state = "poweredOff"
  /\ \E i \in DOMAIN vms :
       vms[i].power_state = "poweredOn" /\ vm_guest_details[i].cpu_usage = 20

\* C11: in every state, hosts phase and export included, every host has
\* exactly nic_count NIC records whose parent_host is its moref, and every
\* NIC record's parent_host is the moref of a host.
C11_HostNics ==
  /\ \A h \in Range(hosts) :
       Cardinality({i \in DOMAIN host_nics : host_nics[i].parent_host = h.moref})
         = h.nic_count
  /\ \A n \in Range(host_nics) : \E h \in Range(hosts) : h.moref = n.parent_host

C11_HostsWithNics ==
  /\ pc = "export"
  /\ Len(hosts) >= 2
  /\ Len(host_nics) = NicCount * Len(hosts)

\* C12: the parent_vswitch of every network and of every port group is the
\* moref of a virtual switch generated for the network's region.
C12_SwitchResolves ==
  /\ \A n \in Range(networks) :
       \E sw \in Range(virtual_switches) :
         /\ sw.moref = n.parent_vswitch
         /\ StartsWith(n.name, Replace(sw.name, "DVS-01", "NET-"))
  /\ \A pg \in Range(portgroups) :
       \E sw \in Range(virtual_switches) : sw.moref = pg.parent_vswitch

\* a run that has aborted exited with status 1 and left none of its files
AbortedClean ==
  pc = "aborted" => exit_code = 1 /\ files \cap csv_files = {}

\* a step that adds a file is the export step, taken after the last
\* generation phase
WritesAtExport ==
  files' \ files # {} => pc = "export" /\ pc' = "done" /\ files' \ files \subseteq csv_files

\* C13: files are written only by the export step, which follows every
\* generation phase; a run that aborts, on a configuration error or on an
\* error raised in a generation phase, has written no file and exits with a
\* non-zero status.
C13_NoPartialOutput == []AbortedClean /\ [][WritesAtExport]_vars

C13_AbortedInGeneration ==
  /\ pc = "aborted" /\ error = "KeyError"
  /\ vcenters # <<>> /\ datacenters # <<>>
  /\ files = {} /\ exit_code = 1

\* the hosts filed under a cluster
HostsOf(c) == {h \in Range(hosts) : h.parent_cluster = c.moref}

\* C14: the hosts of one cluster carry one model, cpu_cores and memory_gb;
\* once generate_hosts has returned, a cluster's total_cpu_cores and
\* total_memory are total_hosts times the cpu_cores and memory_gb of that
\* model, which is the sum over the cluster's hosts (0 for a cluster
\* without hosts).
C14_OneModelPerCluster ==
  /\ \A c \in Range(clusters) : \A g, h \in HostsOf(c) :
       g.model = h.model /\ g.cpu_cores = h.cpu_cores /\ g.memory_gb = h.memory_gb
  /\ pc \in AfterHosts =>
       \A c \in Range(clusters) :
         /\ \A h \in HostsOf(c) :
              /\ c.total_cpu_cores = c.total_hosts * h.cpu_cores
              /\ c.total_memory = c.total_hosts * h.memory_gb
         /\ HostsOf(c) = {} => c.total_cpu_cores = 0 /\ c.total_memory = 0
         /\ c.total_cpu_cores =
              SumSeq([i \in 1..Len(hosts) |->
                        IF hosts[i].parent_cluster = c.moref
                        THEN hosts[i].cpu_cores ELSE 0])
         /\ c.total_memory =
              SumSeq([i \in 1..Len(hosts) |->
                        IF hosts[i].parent_cluster = c.moref
                        THEN hosts[i].memory_gb ELSE 0])

C14_TwoHostTotals ==
  /\ pc = "export"
  /\ \E c \in Range(clusters) :
       /\ c.total_hosts = 2 /\ Cardinality(HostsOf(c)) = 2
       /\ c.total_cpu_cores = 64 /\ c.total_memory = 512

\* the third hyphen-separated token of a VM name
ThirdToken(vm) == Split(vm.name, "-")[3]

\* C15: associated_vms of every network and of every port group is the
\* empty string, because the third hyphen-separated token of every VM name
\* is never WEB, APP or DB, however many VMs exist when the networks are
\* generated.
C15_NoAssociatedVms ==
  /\ \A vm \in Range(vms) : ThirdToken(vm) \notin Range(network_segments)
  /\ \A n \in Range(networks) : n.associated_vms = ""
  /\ \A pg \in Range(portgroups) : pg.associated_vms = ""

C15_NetworksAfterVms ==
  /\ pc = "export"
  /\ networks # <<>> /\ Len(portgroups) = Len(networks)
  /\ \E vm \in Range(vms) : ThirdToken(vm) = "VM"
  /\ \E vm \in Range(vms) : ThirdToken(vm) = "01"

====
